---- MODULE Spec2Model ----
(***************************************************************************)
(* tidyproxy: the cache freshness protocol (util/tidyhq.py fresh_cache,    *)
(* setup_cache, query), the fan-out of a snapshot into the serve/ tree     *)
(* (push_to_files, get_custom_field) and the pull.py run with its          *)
(* pull.lock file.                                                         *)
(*                                                                         *)
(* Python values.  An id is an int in the API's answers and a str once it  *)
(* went through str() or through a JSON object key; 5 and "5" are distinct *)
(* dict keys.  I(n) is the int n, PyStr(I(n)) the decimal string of n.      *)
(* A dict is the sequence of its items in insertion order.                 *)
(***************************************************************************)
EXTENDS Integers, Sequences, FiniteSets, TLC

I(n) == [t |-> "int", v |-> n]

\* str(x) of an id
PyStr(x) == [t |-> "str", v |-> x.v]

\* Python None, as the value of a custom field lookup
NONE == "<None>"

\* a test for None where truthiness is meant: "" passes
Truthy_NotNone(x) == x # NONE

\* truthiness of a str-or-None value: None and "" are falsy
Truthy(x) == x # NONE /\ x # ""

---------------------------------------------------------------------------
(* dict operations *)

DictHas(d, k) == \E i \in 1..Len(d) : d[i].k = k

DictIndex(d, k) == CHOOSE i \in 1..Len(d) : d[i].k = k

DictGet(d, k) == d[DictIndex(d, k)].v

\* d[k] = v : an existing key keeps its position, a new key goes last
DictSet(d, k, v) ==
    IF DictHas(d, k)
    THEN [d EXCEPT ![DictIndex(d, k)] = [k |-> k, v |-> v]]
    ELSE Append(d, [k |-> k, v |-> v])

\* json.dump of a dict: JSON object keys are strings, an int key n becomes "n";
\* the values are kept
JsonDumpDict(d) == [i \in 1..Len(d) |-> [k |-> PyStr(d[i].k), v |-> d[i].v]]

\* the JSON document json.dump writes for a snapshot; json.load of the
\* document yields the same value (str keys stay str)
json_dump(cache) ==
    [cache EXCEPT !.groups = JsonDumpDict(cache.groups),
                  !.invoices = JsonDumpDict(cache.invoices)]

---------------------------------------------------------------------------
(* The remote API.  created_at is the text "…T…+hhmm": loc is the local    *)
(* date-time part, off the UTC offset; strptime(...).timestamp() is the    *)
(* instant loc - off, while sorting on the text orders by loc, then off.   *)

Timestamp(created_at) == created_at.loc - created_at.off

StrLess(a, b) == a.loc < b.loc \/ (a.loc = b.loc /\ a.off < b.off)

\* query(cat="groups") over the network: the list is indexed by group["id"]
RECURSIVE IndexGroups(_, _, _)
IndexGroups(data, i, groups_indexed) ==
    IF i > Len(data) THEN groups_indexed
    ELSE IndexGroups(data, i + 1, DictSet(groups_indexed, data[i].id, data[i]))

\* query(cat, config) without term and without cache: the network's answer
query(cat, remote) ==
    IF cat = "groups" THEN IndexGroups(remote.groups, 1, <<>>)
    ELSE IF cat = "contacts" THEN remote.contacts
    ELSE IF cat = "memberships" THEN remote.memberships
    ELSE IF cat = "invoices" THEN remote.invoices
    ELSE remote.org

---------------------------------------------------------------------------
(* setup_cache *)

\* 86400 * 30 * 18 seconds
TrimWindow == 46656000

\* the loop over raw_invoices: created_at is parsed only when the invoice's
\* contact is seen for the first time, and keeps its value otherwise
RECURSIVE InvoiceLoop(_, _, _, _, _)
InvoiceLoop(raw_invoices, i, invoices, newest, created_at) ==
    IF i > Len(raw_invoices) THEN [invoices |-> invoices, newest |-> newest]
    ELSE LET invoice == raw_invoices[i]
             cid     == invoice.contact_id
             first   == ~DictHas(invoices, cid)
             ca      == IF first THEN Timestamp(invoice.created_at) ELSE created_at
             inv1    == IF first THEN DictSet(invoices, cid, <<>>) ELSE invoices
             new1    == IF first THEN DictSet(newest, cid, ca) ELSE newest
             inv2    == DictSet(inv1, cid, Append(DictGet(inv1, cid), invoice))
             new2    == IF ca > DictGet(new1, cid) THEN DictSet(new1, cid, ca) ELSE new1
         IN  InvoiceLoop(raw_invoices, i + 1, inv2, new2, ca)

\* the contacts whose newest value is within the window keep their list
RECURSIVE CleanInvoices(_, _, _, _, _)
CleanInvoices(invoices, newest, i, t, cleaned_invoices) ==
    IF i > Len(invoices) THEN cleaned_invoices
    ELSE LET contact_id == invoices[i].k
         IN  CleanInvoices(invoices, newest, i + 1, t,
                 IF DictGet(newest, contact_id) > t - TrimWindow
                 THEN DictSet(cleaned_invoices, contact_id, invoices[i].v)
                 ELSE cleaned_invoices)

\* list.sort(key=created_at, reverse=True): stable, so an element goes after
\* every element whose key is not smaller than its own
RECURSIVE InsertDesc(_, _)
InsertDesc(sorted, x) ==
    IF sorted = <<>> THEN <<x>>
    ELSE IF StrLess(Head(sorted).created_at, x.created_at) THEN <<x>> \o sorted
    ELSE <<Head(sorted)>> \o InsertDesc(Tail(sorted), x)

RECURSIVE SortDesc(_, _, _)
SortDesc(list, i, acc) ==
    IF i > Len(list) THEN acc ELSE SortDesc(list, i + 1, InsertDesc(acc, list[i]))

SortEach(invoices) ==
    [i \in 1..Len(invoices) |->
        [k |-> invoices[i].k, v |-> SortDesc(invoices[i].v, 1, <<>>)]]

\* the snapshot setup_cache builds from the remote's answers at instant t
\* (the instant of datetime.now() in the trimming and in cache["time"])
setup_cache(remote, t) ==
    LET loop == InvoiceLoop(query("invoices", remote), 1, <<>>, <<>>, 0)
        cleaned == CleanInvoices(loop.invoices, loop.newest, 1, t, <<>>)
    IN  [contacts    |-> query("contacts", remote),
         groups      |-> query("groups", remote),
         memberships |-> query("memberships", remote),
         org         |-> query("organization", remote),
         invoices    |-> SortEach(cleaned),
         time        |-> t]

---------------------------------------------------------------------------
(* The state.  The library calls (fresh_cache, push_to_files) are made by  *)
(* one caller that holds at most one snapshot object in memory; pull.py    *)
(* runs are the processes of Procs.                                        *)

VARIABLES
    now,        \* the clock, seconds since the epoch
    remote,     \* what the remote API answers
    config,     \* the configuration passed to the library calls
    cacheFile,  \* cache.json: [kind, doc], kind in absent / garbage / json
    held,       \* the caller's snapshot object: [some, snap, pushes]
    last,       \* the library call that ended last, with what it did
    serve,      \* the output tree of the caller's directory
    firstTree,  \* the tree the first push_to_files of the held object wrote
    lockFile,   \* pull.lock exists
    configFile, \* config.json: absent / ok / nokeys
    forced,     \* pull.py: each run was started with --force
    pc,         \* pull.py: where each run is
    runCache,   \* pull.py: each run's tidyhq_cache
    queries     \* pull.py: remote queries each run has made

vars == <<now, remote, config, cacheFile, held, last, serve, firstTree,
          lockFile, configFile, forced, pc, runCache, queries>>

pullVars == <<lockFile, configFile, forced, pc, runCache, queries>>

\* the runs of pull.py
Procs == {1, 2}

\* no snapshot (None)
NoSnap == [some |-> FALSE, snap |-> <<>>]
Some(snap) == [some |-> TRUE, snap |-> snap]

AbsentFile == [kind |-> "absent", doc |-> <<>>]
GarbageFile == [kind |-> "garbage", doc |-> <<>>]

---------------------------------------------------------------------------
(* fresh_cache *)

\* the comparison taken with <=: a snapshot exactly cache_expiry old is stale
IsStale_Inclusive(cache, t, cfg, force) == cache.time <= t - cfg.cache_expiry \/ force

\* the comparison without cache_expiry: any snapshot of the past is stale
IsStale_IgnoresExpiry(cache, t, cfg, force) == cache.time < t \/ force

\* cache["time"] < now - config["cache_expiry"] or force
IsStale(cache, t, cfg, force) == cache.time < t - cfg.cache_expiry \/ force

\* the dump taken before cache["time"] is set: the file carries no time of its own
WrittenCacheFile_Unstamped(cache) ==
    [kind |-> "json", doc |-> json_dump([cache EXCEPT !.time = 0])]

\* what setup_cache leaves in cache.json: the dump of the stamped snapshot
WrittenCacheFile(cache) == [kind |-> "json", doc |-> json_dump(cache)]

\* the three ways fresh_cache ends.  t is the instant the call starts, dt the
\* time the remote queries of a rebuild take.
ReturnProvided(cache, file) ==
    [ret |-> cache, file |-> file, path |-> "provided",
     nRead |-> 0, nBuild |-> 0, nWrite |-> 0]

ReturnFile(file) ==
    [ret |-> file.doc, file |-> file, path |-> "file",
     nRead |-> 1, nBuild |-> 0, nWrite |-> 0]

Rebuild(rem, t) ==
    LET cache == setup_cache(rem, t)
    IN  [ret |-> cache, file |-> WrittenCacheFile(cache), path |-> "built",
         nRead |-> 1, nBuild |-> 1, nWrite |-> 1]

fresh_cache(cache, cfg, force, file, rem, t, dt) ==
    IF cache.some /\ ~IsStale(cache.snap, t, cfg, force)
    THEN ReturnProvided(cache.snap, file)
    ELSE IF file.kind # "json" THEN Rebuild(rem, t + dt)
    ELSE IF IsStale(file.doc, t, cfg, force) THEN Rebuild(rem, t + dt)
    ELSE ReturnFile(file)

---------------------------------------------------------------------------
(* get_custom_field and push_to_files *)

NoField == [some |-> FALSE, field |-> [id |-> NONE, value |-> NONE]]

RECURSIVE FindField(_, _, _)
FindField(custom_fields, i, field_id) ==
    IF i > Len(custom_fields) THEN NoField
    ELSE IF custom_fields[i].id = field_id
         THEN [some |-> TRUE, field |-> custom_fields[i]]
         ELSE FindField(custom_fields, i + 1, field_id)

\* get_custom_field(config, cache={}, contact=contact, field_map_name=name)
get_custom_field(cfg, contact, field_map_name) ==
    LET field_id == cfg.ids[field_map_name]
    IN  IF ~Truthy(field_id) THEN NoField
        ELSE FindField(contact.custom_fields, 1, field_id)

\* slack = get_custom_field(...); if slack: slack = slack["value"]
FieldValue(cfg, contact, field_map_name) ==
    LET f == get_custom_field(cfg, contact, field_map_name)
    IN  IF f.some THEN f.field.value ELSE NONE

\* a file of a directory: not there, or there with its JSON content
NoFile == [written |-> FALSE, data |-> <<>>]
File(data) == [written |-> TRUE, data |-> data]

\* an empty directory tree
CleanTree ==
    [contacts_sorted |-> NoFile, contacts |-> <<>>,
     groups_sorted |-> NoFile, groups |-> <<>>,
     invoices_sorted |-> NoFile, invoices |-> <<>>,
     invoices_all |-> NoFile, invoices_all_sorted |-> NoFile,
     memberships_by_contact |-> NoFile, memberships_by_type |-> NoFile,
     memberships |-> <<>>, org |-> NoFile,
     maps_slack_all |-> NoFile, maps_taiga_all |-> NoFile,
     maps_tidyhq_all |-> NoFile,
     maps_slack |-> <<>>, maps_taiga |-> <<>>, maps_tidyhq |-> <<>>,
     cache_json |-> NoFile]

\* sorted_contacts[contact["id"]] = contact
RECURSIVE IndexById(_, _, _)
IndexById(list, i, acc) ==
    IF i > Len(list) THEN acc
    ELSE IndexById(list, i + 1, DictSet(acc, list[i].id, list[i]))

\* one file {dir}/{key}.json per item, the name being the text of the key
RECURSIVE WriteEach(_, _, _)
WriteEach(dir, d, i) ==
    IF i > Len(d) THEN dir
    ELSE WriteEach(DictSet(dir, PyStr(d[i].k), d[i].v), d, i + 1)

\* one file per key that is already a text (the slack and taiga values)
RECURSIVE WriteEachText(_, _, _)
WriteEachText(dir, d, i) ==
    IF i > Len(d) THEN dir
    ELSE WriteEachText(DictSet(dir, d[i].k, d[i].v), d, i + 1)

\* the loop adding "membership" to the groups.  It works on the snapshot's
\* own objects: group["id"] of the contact is overwritten with its text and
\* the group of the snapshot gets the list.  groups[group["id"]] raises
\* KeyError when the text is no key of groups (ok = FALSE).
RECURSIVE MembershipLoop(_, _, _, _)
MembershipLoop(contacts, groups, i, j) ==
    IF i > Len(contacts) THEN [contacts |-> contacts, groups |-> groups, ok |-> TRUE]
    ELSE IF j > Len(contacts[i].groups) THEN MembershipLoop(contacts, groups, i + 1, 1)
    ELSE LET gid  == PyStr(contacts[i].groups[j].id)
             cs   == [contacts EXCEPT ![i].groups[j].id = gid]
         IN  IF ~DictHas(groups, gid)
             THEN [contacts |-> cs, groups |-> groups, ok |-> FALSE]
             ELSE LET g  == DictGet(groups, gid)
                      m  == IF g.membership.has THEN g.membership.list ELSE <<>>
                      g2 == [g EXCEPT !.membership =
                                [has |-> TRUE, list |-> Append(m, contacts[i].id)]]
                  IN  MembershipLoop(cs, DictSet(groups, gid, g2), i, j + 1)

\* all_invoices += invoices[contact]
RECURSIVE Flatten(_, _, _)
Flatten(invoices, i, acc) ==
    IF i > Len(invoices) THEN acc ELSE Flatten(invoices, i + 1, acc \o invoices[i].v)

\* all_invoices.sort(key=created_at): stable, ascending
RECURSIVE InsertAsc(_, _)
InsertAsc(sorted, x) ==
    IF sorted = <<>> THEN <<x>>
    ELSE IF StrLess(x.created_at, Head(sorted).created_at) THEN <<x>> \o sorted
    ELSE <<Head(sorted)>> \o InsertAsc(Tail(sorted), x)

RECURSIVE SortAsc(_, _, _)
SortAsc(list, i, acc) ==
    IF i > Len(list) THEN acc ELSE SortAsc(list, i + 1, InsertAsc(acc, list[i]))

\* memberships_by_contact / memberships_by_type
RECURSIVE GroupBy(_, _, _, _)
GroupBy(list, field, i, acc) ==
    IF i > Len(list) THEN acc
    ELSE LET k == list[i][field]
             l == IF DictHas(acc, k) THEN DictGet(acc, k) ELSE <<>>
         IN  GroupBy(list, field, i + 1, DictSet(acc, k, Append(l, list[i])))

\* the loop building the three identity maps
RECURSIVE MapLoop(_, _, _, _)
MapLoop(contacts, cfg, i, maps) ==
    IF i > Len(contacts) THEN maps
    ELSE LET contact == contacts[i]
             tidyhq  == PyStr(contact.id)
             slack   == FieldValue(cfg, contact, "slack")
             taiga   == FieldValue(cfg, contact, "taiga")
         IN  MapLoop(contacts, cfg, i + 1,
               [by_tidyhq |-> DictSet(maps.by_tidyhq, tidyhq,
                                      [slack |-> slack, taiga |-> taiga]),
                by_slack  |-> IF Truthy(slack)
                              THEN DictSet(maps.by_slack, slack,
                                           [tidyhq |-> tidyhq, taiga |-> taiga])
                              ELSE maps.by_slack,
                by_taiga  |-> IF Truthy(taiga)
                              THEN DictSet(maps.by_taiga, taiga,
                                           [tidyhq |-> tidyhq, slack |-> slack])
                              ELSE maps.by_taiga])

IdentityMaps(contacts, cfg) ==
    MapLoop(contacts, cfg, 1, [by_tidyhq |-> <<>>, by_slack |-> <<>>, by_taiga |-> <<>>])

\* push_to_files(tidyhq_cache, config, directory): the tree after the call,
\* the snapshot object after the call, and whether the call returned (ok) or
\* raised KeyError in the membership loop, after the contacts were written
push_to_files(tidyhq_cache, cfg, tree) ==
    LET contacts == tidyhq_cache.contacts
        sorted_contacts == IndexById(contacts, 1, <<>>)
        t1 == [tree EXCEPT !.contacts_sorted = File(JsonDumpDict(sorted_contacts)),
                           !.contacts = WriteEach(@, sorted_contacts, 1)]
        loop == MembershipLoop(contacts, tidyhq_cache.groups, 1, 1)
        after == [tidyhq_cache EXCEPT !.contacts = loop.contacts, !.groups = loop.groups]
        groups == loop.groups
        t2 == [t1 EXCEPT !.groups_sorted = File(JsonDumpDict(groups)),
                         !.groups = WriteEach(@, groups, 1)]
        invoices == tidyhq_cache.invoices
        all_invoices == SortAsc(Flatten(invoices, 1, <<>>), 1, <<>>)
        t3 == [t2 EXCEPT !.invoices_sorted = File(JsonDumpDict(invoices)),
                         !.invoices = WriteEach(@, invoices, 1),
                         !.invoices_all = File(all_invoices),
                         !.invoices_all_sorted =
                             File(JsonDumpDict(IndexById(all_invoices, 1, <<>>)))]
        by_contact == GroupBy(tidyhq_cache.memberships, "contact_id", 1, <<>>)
        by_type == GroupBy(tidyhq_cache.memberships, "membership_level_id", 1, <<>>)
        t4 == [t3 EXCEPT !.memberships_by_contact = File(JsonDumpDict(by_contact)),
                         !.memberships_by_type = File(JsonDumpDict(by_type)),
                         !.memberships = WriteEach(@, by_contact, 1),
                         !.org = File(tidyhq_cache.org)]
        maps == IdentityMaps(loop.contacts, cfg)
        t5 == [t4 EXCEPT !.maps_slack_all = File(maps.by_slack),
                         !.maps_taiga_all = File(maps.by_taiga),
                         !.maps_tidyhq_all = File(maps.by_tidyhq),
                         !.maps_tidyhq = WriteEachText(@, maps.by_tidyhq, 1),
                         !.maps_slack = WriteEachText(@, maps.by_slack, 1),
                         !.maps_taiga = WriteEachText(@, maps.by_taiga, 1)]
    IN  IF loop.ok THEN [ok |-> TRUE, tree |-> t5, cache |-> after]
        ELSE [ok |-> FALSE, tree |-> t1, cache |-> after]

---------------------------------------------------------------------------
(* The inputs: bounded sets of remote answers and configurations. *)

MaxTicks == 3
MaxExpiry == 2
MaxInvoices == 3
MaxContacts == 2
MaxPushes == 2

\* the clock starts late enough for now - TrimWindow to be an instant >= 0
StartTime == TrimWindow
MaxNow == StartTime + MaxTicks

\* created_at texts: two at offset +0000 and one whose offset moves its
\* instant before that of a text that sorts lower
Stamps == {[loc |-> 1, off |-> 0], [loc |-> 3, off |-> 0], [loc |-> 4, off |-> 2]}

Invoice(i, c, st) == [id |-> I(100 + i), contact_id |-> I(c), created_at |-> st]

InvoiceLists ==
    UNION {{[i \in 1..n |-> Invoice(i, f[i][1], f[i][2])] :
               f \in [1..n -> {1, 2} \X Stamps]} : n \in 0..MaxInvoices}

Group(g) == [id |-> I(g), membership |-> [has |-> FALSE, list |-> <<>>]]
GroupRef(g) == [id |-> I(g)]
Contact(c, refs, fields) == [id |-> I(c), groups |-> refs, custom_fields |-> fields]

TheGroups == <<Group(5), Group(6)>>
TheMemberships == <<[contact_id |-> I(1), membership_level_id |-> I(9)]>>
TheOrg == [domain_prefix |-> "artifactory"]

Remote(contacts, invoices) ==
    [contacts |-> contacts, groups |-> TheGroups, memberships |-> TheMemberships,
     invoices |-> invoices, org |-> TheOrg]

\* the group references a contact may carry, and its custom fields
RefChoices == {<<>>, <<GroupRef(5)>>, <<GroupRef(6), GroupRef(5), GroupRef(6)>>}

Field(id, value) == [id |-> id, value |-> value]
FieldChoices ==
    {<<Field("F1", "")>>, <<Field("F1", "U1"), Field("F2", "T1")>>,
     <<Field("F2", "T1"), Field("F1", "U2")>>, <<Field("F2", "T2")>>}

\* the ids of a list of n contacts: distinct, and not in ascending order, so
\* that the order of the list is not the order of the ids
IdOrders == {[i \in 1..n |-> n + 1 - i] : n \in 0..MaxContacts}

ContactListsByRefs ==
    UNION {{[i \in 1..Len(ids) |-> Contact(ids[i], r[i], <<Field("F1", "U1")>>)] :
               r \in [1..Len(ids) -> RefChoices]} : ids \in IdOrders}

ContactListsByFields ==
    UNION {{[i \in 1..Len(ids) |-> Contact(ids[i], <<GroupRef(5)>>, fl[i])] :
               fl \in [1..Len(ids) -> FieldChoices]} : ids \in IdOrders}

OneContact == <<Contact(1, <<GroupRef(5)>>, <<Field("F1", "U1")>>)>>
OneInvoiceList == <<Invoice(1, 1, [loc |-> 3, off |-> 0])>>

Ids == [slack |-> "F1", taiga |-> "F2"]
Config(expiry, ids) == [cache_expiry |-> expiry, ids |-> ids]

---------------------------------------------------------------------------
(* The library calls of one caller. *)

NoTree == [valid |-> FALSE, tree |-> CleanTree]

\* no term (None), and what a call other than query records of a query
NoTerm == [t |-> "none", v |-> 0]
NoQuery == [cat |-> "", term |-> NoTerm, cached |-> FALSE, src |-> "none",
            kind |-> "none", value |-> <<>>]

NoCall ==
    [op |-> "none", completed |-> FALSE, start |-> 0, force |-> FALSE,
     arg |-> NoSnap, fileBefore |-> AbsentFile, path |-> "none",
     nRead |-> 0, nBuild |-> 0, nWrite |-> 0, clean |-> FALSE, nth |-> 0,
     query |-> NoQuery]

NoHeld == [some |-> FALSE, snap |-> <<>>, pushes |-> 0]

\* no run of pull.py has started
InitPull ==
    /\ lockFile = FALSE
    /\ configFile = "ok"
    /\ forced = [p \in Procs |-> FALSE]
    /\ pc = [p \in Procs |-> "start"]
    /\ runCache = [p \in Procs |-> NoSnap]
    /\ queries = [p \in Procs |-> 0]

InitLib ==
    /\ now = StartTime
    /\ cacheFile \in {AbsentFile, GarbageFile}
    /\ held = NoHeld
    /\ last = NoCall
    /\ serve = CleanTree
    /\ firstTree = NoTree

\* tidyhq.fresh_cache(cache, config, force) called by the caller, with its
\* held snapshot or with none.  A rebuild whose first query cannot reach the
\* remote ends the call in sys.exit(1), before anything is written.
CallFreshCache ==
    \E useProvided \in BOOLEAN, force \in BOOLEAN, dt \in 0..1, netOk \in BOOLEAN :
        LET arg == IF useProvided THEN [some |-> held.some, snap |-> held.snap] ELSE NoSnap
            r   == fresh_cache(arg, config, force, cacheFile, remote, now, dt)
            call == [op |-> "fresh_cache", completed |-> TRUE, start |-> now,
                     force |-> force, arg |-> arg, fileBefore |-> cacheFile,
                     path |-> r.path, nRead |-> r.nRead, nBuild |-> r.nBuild,
                     nWrite |-> r.nWrite, clean |-> FALSE, nth |-> 0,
                     query |-> NoQuery]
        IN  /\ now + dt <= MaxNow
            /\ (r.path # "built") => (dt = 0 /\ netOk)
            /\ IF netOk
               THEN /\ cacheFile' = r.file
                    /\ held' = IF r.path = "provided" THEN held
                               ELSE [some |-> TRUE, snap |-> r.ret, pushes |-> 0]
                    /\ firstTree' = IF r.path = "provided" THEN firstTree ELSE NoTree
                    /\ last' = call
               ELSE /\ last' = [call EXCEPT !.completed = FALSE, !.nWrite = 0]
                    /\ UNCHANGED <<cacheFile, held, firstTree>>
            /\ now' = now + dt
            /\ UNCHANGED <<remote, config, serve>>
            /\ UNCHANGED pullVars

Tick ==
    /\ now < MaxNow
    /\ now' = now + 1
    /\ UNCHANGED <<remote, config, cacheFile, held, last, serve, firstTree>>
    /\ UNCHANGED pullVars

\* cache.json is removed, or left truncated, by something outside the program
DeleteCacheFile ==
    /\ cacheFile.kind = "json"
    /\ cacheFile' = AbsentFile
    /\ last' = NoCall
    /\ UNCHANGED <<now, remote, config, held, serve, firstTree>>
    /\ UNCHANGED pullVars

CorruptCacheFile ==
    /\ cacheFile.kind = "json"
    /\ cacheFile' = GarbageFile
    /\ last' = NoCall
    /\ UNCHANGED <<now, remote, config, held, serve, firstTree>>
    /\ UNCHANGED pullVars

\* cache.json is rewritten by a rebuild of another process (a pull.py run)
\* while the caller keeps the snapshot it holds
ExternalRebuild ==
    /\ cacheFile' = WrittenCacheFile(setup_cache(remote, now))
    /\ cacheFile' # cacheFile
    /\ last' = NoCall
    /\ UNCHANGED <<now, remote, config, held, serve, firstTree>>
    /\ UNCHANGED pullVars

\* tidyhq.push_to_files(held, config, directory) into the caller's directory
CallPushToFiles ==
    /\ held.some
    /\ held.pushes < MaxPushes
    /\ LET r == push_to_files(held.snap, config, serve)
       IN  /\ serve' = r.tree
           /\ held' = [some |-> TRUE, snap |-> r.cache, pushes |-> held.pushes + 1]
           /\ firstTree' = IF held.pushes = 0
                           THEN [valid |-> serve = CleanTree, tree |-> r.tree]
                           ELSE firstTree
           /\ last' = [NoCall EXCEPT !.op = "push_to_files", !.completed = r.ok,
                                     !.start = now,
                                     !.clean = (serve = CleanTree),
                                     !.nth = held.pushes + 1]
    /\ UNCHANGED <<now, remote, config, cacheFile>>
    /\ UNCHANGED pullVars

\* the caller empties its directory
CleanServe ==
    /\ serve # CleanTree
    /\ serve' = CleanTree
    /\ last' = NoCall
    /\ UNCHANGED <<now, remote, config, cacheFile, held, firstTree>>
    /\ UNCHANGED pullVars

\* tidyhq.setup_cache(config) called directly
CallSetupCache ==
    /\ LET r == Rebuild(remote, now)
       IN  /\ cacheFile' = r.file
           /\ held' = [some |-> TRUE, snap |-> r.ret, pushes |-> 0]
           /\ last' = [NoCall EXCEPT !.op = "setup_cache", !.completed = TRUE,
                                     !.start = now, !.fileBefore = cacheFile,
                                     !.path = r.path, !.nRead = 0,
                                     !.nBuild = 1, !.nWrite = r.nWrite]
    /\ firstTree' = NoTree
    /\ UNCHANGED <<now, remote, config, serve>>
    /\ UNCHANGED pullVars

\* the freshness protocol
Init ==
    /\ InitLib
    /\ InitPull
    /\ remote \in {Remote(OneContact, inv) : inv \in {<<>>, OneInvoiceList}}
    /\ config \in {Config(e, Ids) : e \in {0, MaxExpiry}}

Next == CallFreshCache \/ Tick \/ DeleteCacheFile \/ CorruptCacheFile \/ ExternalRebuild

Spec == Init /\ [][Next]_vars

\* the cache builder, over every list of invoices
InitBuild ==
    /\ InitLib
    /\ InitPull
    /\ remote \in {Remote(OneContact, inv) : inv \in InvoiceLists}
    /\ config = Config(MaxExpiry, Ids)

NextBuild == CallSetupCache \/ Tick

SpecBuild == InitBuild /\ [][NextBuild]_vars

\* the fan-out, over every list of contacts
InitPush ==
    /\ now = MaxNow
    /\ cacheFile = AbsentFile
    /\ held = NoHeld
    /\ last = NoCall
    /\ serve = CleanTree
    /\ firstTree = NoTree
    /\ InitPull
    /\ remote \in {Remote(cs, OneInvoiceList) : cs \in ContactListsByRefs \cup ContactListsByFields}
    /\ config \in {Config(MaxExpiry, Ids), Config(MaxExpiry, [slack |-> "F1", taiga |-> NONE])}

NextPush == CallFreshCache \/ CallPushToFiles \/ CleanServe

SpecPush == InitPush /\ [][NextPush]_vars

---------------------------------------------------------------------------
(* pull.py.  Each run is a process; a step is one access to the file system *)
(* or one library call.                                                     *)

\* config["cache_expiry"] = 86400 when the key is missing
DefaultExpiry == 86400

\* setup_cache sends one query per category
QueriesPerBuild == 5

libFrame == UNCHANGED <<remote, held, last, firstTree>>

\* lines 21-33: without --force, open("pull.lock") succeeding ends the run
CheckLock(p) ==
    /\ pc[p] = "start"
    /\ pc' = [pc EXCEPT ![p] = IF ~forced[p] /\ lockFile THEN "exit_locked" ELSE "create"]
    /\ UNCHANGED <<now, config, cacheFile, serve, lockFile, configFile, forced,
                   runCache, queries>>
    /\ libFrame

\* lines 35-38: open("pull.lock", "w")
CreateLock(p) ==
    /\ pc[p] = "create"
    /\ lockFile' = TRUE
    /\ pc' = [pc EXCEPT ![p] = "config"]
    /\ UNCHANGED <<now, config, cacheFile, serve, configFile, forced, runCache, queries>>
    /\ libFrame

\* lines 41-61: a missing config.json or a missing required key ends the run
\* in sys.exit(1)
LoadConfig(p) ==
    /\ pc[p] = "config"
    /\ pc' = [pc EXCEPT ![p] = IF configFile \in {"absent", "nokeys"}
                               THEN "exit_config" ELSE "fresh1"]
    /\ UNCHANGED <<now, config, cacheFile, serve, lockFile, configFile, forced,
                   runCache, queries>>
    /\ libFrame

\* the configuration the run works with
RunConfig ==
    IF configFile = "noexpiry" THEN [config EXCEPT !.cache_expiry = DefaultExpiry]
    ELSE config

\* lines 65 and 71: tidyhq_cache = tidyhq.fresh_cache(config=config)
RunFreshCache(p, at, next) ==
    /\ pc[p] = at
    /\ \E dt \in 0..1, netOk \in BOOLEAN :
        LET r == fresh_cache(NoSnap, RunConfig, FALSE, cacheFile, remote, now, dt)
        IN  /\ now + dt <= MaxNow
            /\ (r.path # "built") => (dt = 0 /\ netOk)
            /\ IF netOk
               THEN /\ cacheFile' = r.file
                    /\ runCache' = [runCache EXCEPT ![p] = Some(r.ret)]
                    /\ queries' = [queries EXCEPT ![p] = @ + r.nBuild * QueriesPerBuild]
                    /\ pc' = [pc EXCEPT ![p] = next]
               ELSE /\ queries' = [queries EXCEPT ![p] = @ + 1]
                    /\ pc' = [pc EXCEPT ![p] = "exit_net"]
                    /\ UNCHANGED <<cacheFile, runCache>>
            /\ now' = now + dt
    /\ UNCHANGED <<config, serve, lockFile, configFile, forced>>
    /\ libFrame

FreshCache1(p) == RunFreshCache(p, "fresh1", "fresh2")
FreshCache2(p) == RunFreshCache(p, "fresh2", "push")

\* lines 73-96: the directories, then push_to_files into serve/
RunPushToFiles(p) ==
    /\ pc[p] = "push"
    /\ LET r == push_to_files(runCache[p].snap, RunConfig, serve)
       IN  /\ serve' = r.tree
           /\ runCache' = [runCache EXCEPT ![p] = Some(r.cache)]
           /\ pc' = [pc EXCEPT ![p] = IF r.ok THEN "dump" ELSE "crashed"]
    /\ UNCHANGED <<now, config, cacheFile, lockFile, configFile, forced, queries>>
    /\ libFrame

\* lines 98-101: json.dump(tidyhq_cache) to serve/cache.json
DumpCache(p) ==
    /\ pc[p] = "dump"
    /\ serve' = [serve EXCEPT !.cache_json = File(json_dump(runCache[p].snap))]
    /\ pc' = [pc EXCEPT ![p] = "unlock"]
    /\ UNCHANGED <<now, config, cacheFile, lockFile, configFile, forced, runCache, queries>>
    /\ libFrame

\* lines 103-106: os.remove("pull.lock") raises when the file is gone
RemoveLock(p) ==
    /\ pc[p] = "unlock"
    /\ lockFile' = FALSE
    /\ pc' = [pc EXCEPT ![p] = IF lockFile THEN "done" ELSE "crashed"]
    /\ UNCHANGED <<now, config, cacheFile, serve, configFile, forced, runCache, queries>>
    /\ libFrame

\* a run is past the pull.lock check and the configuration, in the pipeline:
\* fresh_cache, push_to_files, serve/cache.json, up to removing pull.lock
Running(p) == pc[p] \in {"fresh1", "fresh2", "push", "dump", "unlock"}

InitRuns ==
    /\ now = StartTime
    /\ remote = Remote(OneContact, OneInvoiceList)
    /\ config \in {Config(e, Ids) : e \in {0, MaxExpiry}}
    /\ cacheFile \in {AbsentFile, GarbageFile}
    /\ held = NoHeld
    /\ last = NoCall
    /\ serve = CleanTree
    /\ firstTree = NoTree
    /\ lockFile = FALSE
    /\ configFile \in {"ok", "noexpiry", "absent", "nokeys"}
    /\ forced \in [Procs -> BOOLEAN]
    /\ pc = [p \in Procs |-> "start"]
    /\ runCache = [p \in Procs |-> NoSnap]
    /\ queries = [p \in Procs |-> 0]

NextRuns ==
    \/ \E p \in Procs :
          \/ CheckLock(p) \/ CreateLock(p) \/ LoadConfig(p)
          \/ FreshCache1(p) \/ FreshCache2(p)
          \/ RunPushToFiles(p) \/ DumpCache(p) \/ RemoveLock(p)
    \/ Tick

SpecPull == InitRuns /\ [][NextRuns]_vars

---------------------------------------------------------------------------
(* Properties of fresh_cache and setup_cache. *)

FreshDone == last.op = "fresh_cache" /\ last.completed

\* the snapshot the last call returned
Returned == held.snap

\* the call was given a snapshot that is stale in the sense of the claim
\* (now - S.time >= cache_expiry), resp. strictly older than cache_expiry
ProvidedOld == last.arg.some /\ last.start - last.arg.snap.time >= config.cache_expiry
ProvidedOlder == last.arg.some /\ last.start - last.arg.snap.time > config.cache_expiry

\* cache.json, as the call found it, parses and is not older than cache_expiry
FileWasFresh ==
    /\ last.fileBefore.kind = "json"
    /\ last.start - last.fileBefore.doc.time <= config.cache_expiry

C2_FreshProvidedReturnedWithoutIO ==
    (FreshDone /\ ~last.force /\ last.arg.some
       /\ last.start - last.arg.snap.time < config.cache_expiry)
        => /\ Returned = last.arg.snap
           /\ last.nRead = 0 /\ last.nBuild = 0 /\ last.nWrite = 0
           /\ cacheFile = last.fileBefore

\* the fast path taken although cache.json holds something else than S
C2_Witness ==
    /\ FreshDone /\ ~last.force /\ last.arg.some
    /\ last.start - last.arg.snap.time < config.cache_expiry
    /\ last.start > last.arg.snap.time
    /\ last.path = "provided"
    /\ cacheFile.kind # "json"

\* C3: a completed call ends in exactly one of: the provided snapshot
\* returned, the snapshot of cache.json returned, a built snapshot returned;
\* and after a rebuild cache.json holds the dump of the snapshot that was
\* built, which is the one returned, with the same time stamp.
C3_OneOutcomeAndRebuildWritesWhatItReturns ==
    FreshDone =>
        /\ last.path \in {"provided", "file", "built"}
        /\ (last.path = "provided") =>
               /\ last.arg.some /\ Returned = last.arg.snap
               /\ last.nRead = 0 /\ last.nBuild = 0 /\ cacheFile = last.fileBefore
        /\ (last.path = "file") =>
               /\ last.fileBefore.kind = "json" /\ Returned = last.fileBefore.doc
               /\ last.nBuild = 0 /\ cacheFile = last.fileBefore
        /\ (last.path = "built") =>
               /\ last.nBuild = 1 /\ last.nWrite = 1
               /\ cacheFile.kind = "json"
               /\ cacheFile.doc = json_dump(Returned)
               /\ cacheFile.doc.time = Returned.time
               /\ Returned.time >= last.start

\* a rebuild that replaced a cache.json holding an older snapshot
C3_Witness ==
    /\ FreshDone /\ last.path = "built"
    /\ last.fileBefore.kind = "json"
    /\ cacheFile # last.fileBefore
    /\ cacheFile.doc.time = Returned.time

\* C5 as stated: the snapshot a rebuild wrote to cache.json, reloaded through
\* fresh_cache while it is not stale, is structurally equal to the snapshot
\* the rebuild returned in memory (same keys of the same type, same values).
C5_ReloadEqualsBuilt ==
    (FreshDone /\ last.path = "built") =>
        LET reload == fresh_cache(NoSnap, config, FALSE, cacheFile, remote, now, 0)
        IN  (reload.path = "file") => (reload.ret = Returned)


\* the contacts that invoices are drawn for
InvoiceContacts == {1, 2}

BuildDone == last.op = "setup_cache" /\ last.completed

\* the instants of the invoices the remote returned for contact c
InstantsOf(c) ==
    {Timestamp(remote.invoices[i].created_at) :
        i \in {j \in 1..Len(remote.invoices) : remote.invoices[j].contact_id = I(c)}}

\* C4 as stated: the built snapshot keeps a contact's invoice list if and only
\* if the maximum created_at over all invoices of that contact is newer than
\* now - 540 days, whatever the order of the invoices in the remote's answer.
C4_KeptIffLatestInvoiceInWindow ==
    BuildDone =>
        \A c \in InvoiceContacts :
            DictHas(Returned.invoices, I(c))
                <=> (\E t \in InstantsOf(c) : t > last.start - TrimWindow)

---------------------------------------------------------------------------
(* Properties of the pull.py runs. *)

\* C9 as stated: two runs started without --force are never both past the
\* pull.lock check and inside the pipeline.
C9_UnforcedRunsExcludeEachOther ==
    \A p, q \in Procs :
        (p # q /\ ~forced[p] /\ ~forced[q]) => ~(Running(p) /\ Running(q))

\* C10 as stated: a run that ends on a missing config.json or a missing
\* required key has made no remote query and has left the files as they were,
\* pull.lock included (no other run having started).
C10_ConfigErrorLeavesNoTrace ==
    \A p \in Procs :
        (pc[p] = "exit_config" /\ \A q \in Procs \ {p} : pc[q] = "start")
            => /\ queries[p] = 0
               /\ ~lockFile
               /\ serve = CleanTree
               /\ cacheFile.kind # "json"

---------------------------------------------------------------------------
(* Properties of push_to_files. *)

PushDone == last.op = "push_to_files"
PushReturned == PushDone /\ last.completed

\* the contacts and groups of the snapshot that was passed
PushedContacts == held.snap.contacts
PushedGroups == held.snap.groups

RECURSIVE Repeat(_, _)
Repeat(x, n) == IF n = 0 THEN <<>> ELSE <<x>> \o Repeat(x, n - 1)

\* the ids of the contacts that reference the group numbered g, once per
\* reference, in the order of the contact list
RECURSIVE MembersOf(_, _, _)
MembersOf(contacts, g, i) ==
    IF i > Len(contacts) THEN <<>>
    ELSE LET refs == {j \in 1..Len(contacts[i].groups) : contacts[i].groups[j].id.v = g}
         IN  Repeat(contacts[i].id, Cardinality(refs)) \o MembersOf(contacts, g, i + 1)

\* the membership list a written group carries (none is the empty list)
WrittenMembers(dir, name) ==
    IF ~DictHas(dir, name) THEN <<"no file">>
    ELSE LET g == DictGet(dir, name)
         IN  IF g.membership.has THEN g.membership.list ELSE <<>>

\* C6 as stated: after push_to_files, for every group g of the snapshot, the
\* membership written to groups/sorted.json and to groups/{g}.json is exactly
\* the ids of the contacts referencing g, once per reference, in contact
\* order; for a snapshot of a rebuild as for one loaded from cache.json.
C6_MembershipIsTheReferencingContacts ==
    PushDone =>
        \A k \in 1..Len(PushedGroups) :
            LET name == PyStr(PushedGroups[k].k)
                want == MembersOf(PushedContacts, name.v, 1)
            IN  /\ serve.groups_sorted.written
                /\ WrittenMembers(serve.groups_sorted.data, name) = want
                /\ WrittenMembers(serve.groups, name) = want

\* C7 as stated: push_to_files called twice with the same snapshot, each time
\* into a clean directory, writes identical trees.
C7_SecondPushWritesTheSameTree ==
    (PushReturned /\ last.nth = 2 /\ last.clean /\ firstTree.valid)
        => serve = firstTree.tree

\* the value of the custom field that config maps name to: that of the first
\* field of the contact with the mapped id, None without one
ValueOf(contact, name) ==
    LET fid == config.ids[name]
        at  == {i \in 1..Len(contact.custom_fields) : contact.custom_fields[i].id = fid}
    IN  IF fid = NONE \/ at = {} THEN NONE
        ELSE contact.custom_fields[CHOOSE i \in at : \A j \in at : i <= j].value

HasValue(x) == x \notin {NONE, ""}

BySlack == serve.maps_slack_all.data
ByTaiga == serve.maps_taiga_all.data
ByTidyhq == serve.maps_tidyhq_all.data

\* the by-tidyhq map has one entry per contact, holding its two values
ByTidyhqRight ==
    /\ Len(ByTidyhq) = Len(PushedContacts)
    /\ \A i \in 1..Len(PushedContacts) :
          LET c == PushedContacts[i]
          IN  /\ DictHas(ByTidyhq, PyStr(c.id))
              /\ DictGet(ByTidyhq, PyStr(c.id)) =
                     [slack |-> ValueOf(c, "slack"), taiga |-> ValueOf(c, "taiga")]

\* a contact without a value contributes no entry
NoEntryWithoutValue ==
    /\ \A k \in 1..Len(BySlack) :
          /\ HasValue(BySlack[k].k)
          /\ \E i \in 1..Len(PushedContacts) : ValueOf(PushedContacts[i], "slack") = BySlack[k].k
    /\ \A k \in 1..Len(ByTaiga) :
          /\ HasValue(ByTaiga[k].k)
          /\ \E i \in 1..Len(PushedContacts) : ValueOf(PushedContacts[i], "taiga") = ByTaiga[k].k

SlackEntry(c) == [tidyhq |-> PyStr(c.id), taiga |-> ValueOf(c, "taiga")]
TaigaEntry(c) == [tidyhq |-> PyStr(c.id), slack |-> ValueOf(c, "slack")]

\* C8 as stated: the by-tidyhq map has one entry per contact with its slack
\* and taiga values; every contact with slack value s has
\* by-slack[s] = {tidyhq: id, taiga: t}, every contact with taiga value t has
\* by-taiga[t] = {tidyhq: id, slack: s}; a contact without a value
\* contributes no entry.
C8_EveryContactHasItsEntries ==
    PushReturned =>
        /\ ByTidyhqRight
        /\ NoEntryWithoutValue
        /\ \A i \in 1..Len(PushedContacts) :
              LET c == PushedContacts[i]
                  s == ValueOf(c, "slack")
                  t == ValueOf(c, "taiga")
              IN  /\ HasValue(s) => (DictHas(BySlack, s) /\ DictGet(BySlack, s) = SlackEntry(c))
                  /\ HasValue(t) => (DictHas(ByTaiga, t) /\ DictGet(ByTaiga, t) = TaigaEntry(c))

\* the last contact of the list that carries value x under name
LastWith(name, x) ==
    LET at == {i \in 1..Len(PushedContacts) : ValueOf(PushedContacts[i], name) = x}
    IN  PushedContacts[CHOOSE i \in at : \A j \in at : j <= i]

\* C8 amended: as stated, except that by-slack[s] (resp. by-taiga[t]) holds
\* the entry of the last contact, in list order, whose slack (resp. taiga)
\* value is s (resp. t): contacts sharing a value share one entry.
C8_LastContactWithAValueHasTheEntry ==
    PushReturned =>
        /\ ByTidyhqRight
        /\ NoEntryWithoutValue
        /\ \A i \in 1..Len(PushedContacts) :
              LET c == PushedContacts[i]
                  s == ValueOf(c, "slack")
                  t == ValueOf(c, "taiga")
              IN  /\ HasValue(s) => (DictHas(BySlack, s)
                                     /\ DictGet(BySlack, s) = SlackEntry(LastWith("slack", s)))
                  /\ HasValue(t) => (DictHas(ByTaiga, t)
                                     /\ DictGet(ByTaiga, t) = TaigaEntry(LastWith("taiga", t)))

\* two contacts with the same taiga value and different slack values, one
\* entry in the by-taiga map
C8_Witness ==
    /\ PushReturned
    /\ Len(PushedContacts) = 2
    /\ ValueOf(PushedContacts[1], "taiga") = "T1"
    /\ ValueOf(PushedContacts[2], "taiga") = "T1"
    /\ ValueOf(PushedContacts[1], "slack") # ValueOf(PushedContacts[2], "slack")
    /\ Len(ByTaiga) = 1
    /\ Len(BySlack) = 2

---------------------------------------------------------------------------
(* query(cat, config, term, cache): the lookup in a local cache, then the   *)
(* network.  A term is None, an int, the decimal text of an int, or a text  *)
(* that is no number.                                                       *)

TextTerm == [t |-> "text", v |-> 0]

\* if type(term) == int: term = str(term)
CoerceTerm(term) == IF term.t = "int" THEN PyStr(term) ELSE term

\* int(term) returns for the text of a number and raises for any other text
IsNumeric(term) == term.t = "str"

\* what the network answers
Answer(src, kind, value) == [src |-> src, kind |-> kind, value |-> value]

\* GET /v1/{cat}/{term}: the record with that id, or the API's error document
RemoteItem(cat, term, rem) ==
    LET list == IF cat = "groups" THEN rem.groups
                ELSE IF cat = "contacts" THEN rem.contacts ELSE <<>>
        at   == {i \in 1..Len(list) : IsNumeric(term) /\ list[i].id.v = term.v}
    IN  IF at = {} THEN Answer("network", "error", <<>>)
        ELSE Answer("network", "item", list[CHOOSE i \in at : \A j \in at : i <= j])

\* lines 57-79: the request, with "/{term}" appended when there is a term
NetworkQuery(cat, term, rem) ==
    IF term.t # "none" THEN RemoteItem(cat, term, rem)
    ELSE Answer("network", "collection", query(cat, rem))

\* lines 47-49: the scan of cache["contacts"]; int(term) is evaluated for the
\* first contact already, and raises ValueError when term is no number
RECURSIVE ScanContacts(_, _, _)
ScanContacts(contacts, i, term) ==
    IF i > Len(contacts) THEN Answer("miss", "none", <<>>)
    ELSE IF ~IsNumeric(term) THEN Answer("raised", "ValueError", <<>>)
    ELSE IF contacts[i].id.v = term.v THEN Answer("cache", "item", contacts[i])
    ELSE ScanContacts(contacts, i + 1, term)

\* lines 28-55: what the cache gives; src = "miss" is the fall through to the
\* request.  Only the branches for groups and for contacts return.
CacheLookup(cat, term, cache) ==
    IF ~cache.some \/ cat \notin DOMAIN cache.snap THEN Answer("miss", "none", <<>>)
    ELSE IF cat = "groups"
    THEN IF term.t # "none"
         THEN IF DictHas(cache.snap.groups, term)
              THEN Answer("cache", "item", DictGet(cache.snap.groups, term))
              ELSE IF IsNumeric(term) /\ DictHas(cache.snap.groups, I(term.v))
              THEN Answer("cache", "item", DictGet(cache.snap.groups, I(term.v)))
              ELSE Answer("miss", "none", <<>>)
         ELSE Answer("cache", "collection", cache.snap.groups)
    ELSE IF cat = "contacts"
    THEN IF term.t # "none"
         THEN ScanContacts(cache.snap.contacts, 1, term)
         ELSE Answer("cache", "collection", cache.snap.contacts)
    ELSE Answer("miss", "none", <<>>)

\* query(cat, config, term, cache)
query_cached(cat, term0, cache, rem) ==
    LET term == CoerceTerm(term0)
        hit  == CacheLookup(cat, term, cache)
    IN  IF hit.src = "miss" THEN NetworkQuery(cat, term, rem) ELSE hit

\* the categories of the API, and the terms of the calls
Cats == {"contacts", "groups", "memberships", "invoices", "organization"}
TermIds == {1, 5, 9}
Terms == {NoTerm, TextTerm} \cup {I(n) : n \in TermIds} \cup {PyStr(I(n)) : n \in TermIds}

\* tidyhq.query(cat, config, term, cache) called by the caller, with the
\* snapshot it holds as cache or with none.  A request that cannot reach the
\* remote ends the call in sys.exit(1).
CallQuery ==
    \E cat \in Cats, term \in Terms, useCache \in BOOLEAN, netOk \in BOOLEAN :
        LET cache == IF useCache THEN [some |-> held.some, snap |-> held.snap] ELSE NoSnap
            r     == query_cached(cat, term, cache, remote)
        IN  /\ (r.src # "network") => netOk
            /\ last' = [NoCall EXCEPT
                          !.op = "query", !.completed = netOk /\ r.src # "raised",
                          !.start = now,
                          !.query = [cat |-> cat, term |-> term,
                                     cached |-> cache.some, src |-> r.src,
                                     kind |-> IF netOk THEN r.kind ELSE "exit",
                                     value |-> IF netOk THEN r.value ELSE <<>>]]
            /\ UNCHANGED <<now, remote, config, cacheFile, held, serve, firstTree>>
            /\ UNCHANGED pullVars

\* the lookups, over caches built from the network and loaded from cache.json
InitQuery ==
    /\ now = MaxNow
    /\ cacheFile = AbsentFile
    /\ held = NoHeld
    /\ last = NoCall
    /\ serve = CleanTree
    /\ firstTree = NoTree
    /\ InitPull
    /\ remote \in {Remote(cs, OneInvoiceList) : cs \in ContactListsByRefs}
    /\ config = Config(MaxExpiry, Ids)

NextQuery == CallFreshCache \/ CallQuery

SpecQuery == InitQuery /\ [][NextQuery]_vars

---------------------------------------------------------------------------
(* Properties of query. *)

QueryDone == last.op = "query"
Asked == last.query

\* the call was given a cache that holds the requested category
CacheHoldsCategory == QueryDone /\ Asked.cached /\ Asked.cat \in DOMAIN held.snap

\* the term as a number, when it is one
AskedNumber == Asked.term.t \in {"int", "str"}

\* the keys of the cached groups that are the term as text, resp. as int
GroupKeyText == [t |-> "str", v |-> Asked.term.v]
GroupKeyInt == [t |-> "int", v |-> Asked.term.v]

\* C11 as stated: with a cache that holds the requested category, query sends
\* a request only on a miss of a groups or contacts term; a groups term is
\* looked up by its text, then by its int; a contacts term by a scan on the
\* int id; for every other category, or without term, the cached collection
\* or record is returned.
C11_CachedCategoryServedFromCache ==
    (CacheHoldsCategory /\ Asked.term # TextTerm) =>
        IF Asked.cat = "groups" /\ AskedNumber
        THEN IF DictHas(held.snap.groups, GroupKeyText)
             THEN Asked.src = "cache" /\ Asked.value = DictGet(held.snap.groups, GroupKeyText)
             ELSE IF DictHas(held.snap.groups, GroupKeyInt)
             THEN Asked.src = "cache" /\ Asked.value = DictGet(held.snap.groups, GroupKeyInt)
             ELSE Asked.src = "network"
        ELSE IF Asked.cat = "contacts" /\ AskedNumber
        THEN LET at == {i \in 1..Len(held.snap.contacts) :
                           held.snap.contacts[i].id.v = Asked.term.v}
             IN  IF at = {} THEN Asked.src = "network"
                 ELSE /\ Asked.src = "cache"
                      /\ Asked.value = held.snap.contacts[CHOOSE i \in at : \A j \in at : i <= j]
        ELSE Asked.src = "cache" /\ Asked.value = held.snap[Asked.cat]

====
